---- MODULE Spec2Model ----
(***************************************************************************)
(* Argument graphs (argviz.model.GraphModel) and the outline codec         *)
(* (argviz.exporters.outline.OutlineParser / OutlineExporter).             *)
(*                                                                         *)
(* Encodings                                                               *)
(*   identifier    a pair <<prefix, k>>: NodeId(k) is "node_<k>", LinkId(k)*)
(*                 is "link_<k>", NoId is the empty string "" (falsy in    *)
(*                 Python).  IdLess is the string order of these names.    *)
(*   outline number a non-empty sequence of non-zero integers: a positive  *)
(*                 entry k is a dotted segment ".k" (the first one has no  *)
(*                 dot), a negative entry -k is a warrant segment "wk".    *)
(*                 <<1, 1, -1>> is "1.1w1"; <<1, 1, -1, 1>> is "1.1w1.1".  *)
(*                 NoNumber (the empty sequence) is Python's None.         *)
(*   content       a record [see, txt]: txt > 0 is a free text (a natural  *)
(*                 number standing for the string, ordered as the strings  *)
(*                 are), see # NoNumber is the string "(see <number>)".    *)
(*   line          one physical line of the text after split('\n'):        *)
(*                 blank, or its leading-whitespace length, number,        *)
(*                 optional period, first bracket, second bracket ("" when *)
(*                 absent) and the rest of the line (a content).           *)
(*   text          the sequence of physical lines.                         *)
(*   secrets.token_hex(4) is taken to return a value not returned before:  *)
(*                 the k-th identifier generated by parse is NodeId(k) or  *)
(*                 LinkId(k).                                              *)
(***************************************************************************)
EXTENDS Integers, Sequences, FiniteSets, TLC

\* ------------------------------------------------------------------ bounds
\* Nodes and links of the caller's data, nodes plus links, source references
\* over all its links, distinct free texts, physical lines of a written text.
MaxNodes == 3
MaxLinks == 2
MaxSize == 4
MaxSources == 2
MaxContent == 2
MaxLines == 3
MaxExports == 2
MaxReusedSize == 3
MaxRoots == 2
MaxNamedSize == 2
MaxGroupLines == 4
MaxArgumentNodes == 3
MaxArgumentLinks == 3
MaxDepth == 2

\* The indentation unit: len(indent_str) % 3, "   " * indent.
IndentUnit == 3

\* --------------------------------------------------------------- encodings
NoId == <<"", 0>>
NodeId(k) == <<"node", k>>
LinkId(k) == <<"link", k>>
NoNumber == << >>

StrRank(s) ==
  CASE s = "" -> 0
    [] s = "Conclusion" -> 1
    [] s = "Datum" -> 2
    [] s = "Proposition" -> 3
    [] s = "link" -> 4
    [] s = "node" -> 5
    [] s = "supports" -> 6
    [] s = "undermines" -> 7
    [] s = "warrant" -> 8
    [] OTHER -> 9

IdLess(a, b) ==
  \/ StrRank(a[1]) < StrRank(b[1])
  \/ (a[1] = b[1] /\ a[2] < b[2])

PlainContent(t) == [see |-> NoNumber, txt |-> t]
SeeContent(n) == [see |-> n, txt |-> 0]
NoContent == [see |-> NoNumber, txt |-> 0]

\* The string order of two contents: "(" sorts before every free text.
ContentLess(c, d) ==
  IF c.see # NoNumber
    THEN d.see = NoNumber /\ d.txt > 0
    ELSE d.see = NoNumber /\ c.txt < d.txt

BlankLine ==
  [blank |-> TRUE, indent |-> 0, number |-> NoNumber, dot |-> FALSE,
   b1 |-> "", b2 |-> "", body |-> NoContent]

\* f"{number}.{k}" and f"{number}w{k}"
Child(number, k) == Append(number, k)
WarrantNumber(number, k) == Append(number, 0 - k)

\* ------------------------------------------------------------- dictionaries
\* A dict keyed by id, as the sequence of its values in insertion order:
\* assigning an existing key keeps its position and replaces its value.
RECURSIVE IndexOfId(_, _, _)
IndexOfId(d, id, i) ==
  IF i > Len(d) THEN 0
  ELSE IF d[i].id = id THEN i
  ELSE IndexOfId(d, id, i + 1)

HasKey(d, id) == IndexOfId(d, id, 1) # 0
DictGet(d, id) == d[IndexOfId(d, id, 1)]
DictPut(d, rec) ==
  LET i == IndexOfId(d, rec.id, 1)
  IN IF i = 0 THEN Append(d, rec) ELSE [d EXCEPT ![i] = rec]

RECURSIVE DictOf(_, _, _)
DictOf(recs, i, d) ==
  IF i > Len(recs) THEN d ELSE DictOf(recs, i + 1, DictPut(d, recs[i]))

\* A dict keyed by something else (an outline number), as a function.
MapPut(m, key, val) ==
  [x \in (DOMAIN m) \cup {key} |-> IF x = key THEN val ELSE m[x]]

\* -------------------------------------------------------------- GraphModel
\* _validate_reference: the reference is a registered node or link.
ValidReference(nodes, links, ref_id) == HasKey(nodes, ref_id) \/ HasKey(links, ref_id)

\* Phase 3 of __init__ for one link, from its k-th source on: the first
\* reference that does not resolve, or NoError.
NoError == [raised |-> FALSE, ref_id |-> NoId, context |-> NoId, ref_type |-> ""]

RECURSIVE ValidateSources(_, _, _, _)
ValidateSources(nodes, links, link, k) ==
  IF k > Len(link.source_ids) THEN NoError
  ELSE IF ~ValidReference(nodes, links, link.source_ids[k])
    THEN [raised |-> TRUE, ref_id |-> link.source_ids[k], context |-> link.id,
          ref_type |-> "link source"]
  ELSE ValidateSources(nodes, links, link, k + 1)

ValidateLink(nodes, links, link) ==
  LET s == ValidateSources(nodes, links, link, 1)
  IN IF s.raised THEN s
     ELSE IF link.target_id # NoId /\ ~ValidReference(nodes, links, link.target_id)
       THEN [raised |-> TRUE, ref_id |-> link.target_id, context |-> link.id,
             ref_type |-> "link target"]
     ELSE NoError

RECURSIVE ValidateLinks(_, _, _)
ValidateLinks(nodes, links, i) ==
  IF i > Len(links) THEN NoError
  ELSE LET e == ValidateLink(nodes, links, links[i])
       IN IF e.raised THEN e ELSE ValidateLinks(nodes, links, i + 1)

\* The edges of _graph: source -> link for every source, link -> target when
\* the target is truthy.
LinkEdges(link) ==
  {<<link.source_ids[k], link.id>> : k \in 1..Len(link.source_ids)}
    \cup (IF link.target_id # NoId THEN {<<link.id, link.target_id>>} ELSE {})

GraphEdges(links) == UNION {LinkEdges(links[i]) : i \in 1..Len(links)}

\* No GraphModel: none built yet, or the call raised instead of returning one.
NoModel == [ok |-> FALSE, error |-> NoError, nodes |-> << >>, links |-> << >>, edges |-> {}]

\* GraphModel.__init__(data): the constructed object, or the error raised.
GraphModel(data_nodes, data_links) ==
  LET nodes == DictOf(data_nodes, 1, << >>)
      links == DictOf(data_links, 1, << >>)
      e == ValidateLinks(nodes, links, 1)
  IN IF e.raised
       THEN [ok |-> FALSE, error |-> e, nodes |-> << >>, links |-> << >>, edges |-> {}]
       ELSE [ok |-> TRUE, error |-> NoError, nodes |-> nodes, links |-> links,
             edges |-> GraphEdges(links)]

get_parents(model, id) == {e[1] : e \in {f \in model.edges : f[2] = id}}
get_children(model, id) == {e[2] : e \in {f \in model.edges : f[1] = id}}

\* get_incoming_links: the links among the predecessors of id.
get_incoming_links(model, id) ==
  {model.links[i] : i \in {j \in 1..Len(model.links) : model.links[j].id \in get_parents(model, id)}}

\* bfs(start_ids, depth, get_neighbors) of get_subgraph: depth + 1 rounds, each
\* adding its frontier to collected and moving to the neighbours not yet
\* collected.  forward follows successors, otherwise predecessors.
RECURSIVE Bfs(_, _, _, _, _)
Bfs(model, frontier, rounds, forward, collected) ==
  IF rounds = 0 THEN collected
  ELSE LET updated == collected \cup frontier
           next_frontier ==
             UNION {IF forward THEN get_children(model, id) ELSE get_parents(model, id) :
                      id \in frontier}
       IN Bfs(model, next_frontier \ updated, rounds - 1, forward, updated)

\* The ids get_subgraph collects: upwards first, then downwards into the same
\* set.
Collected(model, root_ids, depth_up, depth_down) ==
  LET start_ids == {root_ids[k] : k \in 1..Len(root_ids)}
      up == Bfs(model, start_ids, depth_up + 1, TRUE, {})
  IN Bfs(model, start_ids, depth_down + 1, FALSE, up)

\* The links get_subgraph keeps: collected themselves, with every source
\* collected, and with a target that is empty or collected.
KeptLink(link, collected) ==
  /\ link.id \in collected
  /\ \A k \in 1..Len(link.source_ids) : link.source_ids[k] \in collected
  /\ link.target_id = NoId \/ link.target_id \in collected

\* The graph narrowed in place to what was extracted.
AfterSubgraphInPlace(model, new_model) == new_model

\* What get_subgraph leaves of the graph it is called on: the new lists are
\* built beside self._nodes and self._links.
AfterSubgraph(model, new_model) == model

\* get_subgraph looking the roots up before it checks the depths.
get_subgraphRootsFirst(model, root_ids, depth_up, depth_down) ==
  IF \E k \in 1..Len(root_ids) : ~ValidReference(model.nodes, model.links, root_ids[k])
    THEN [raised |-> "KeyError", model |-> NoModel]
  ELSE IF depth_up < 0 \/ depth_down < 0
    THEN [raised |-> "ValueError", model |-> NoModel]
  ELSE [raised |-> "", model |-> model]

\* model.get_subgraph(root_ids, depth_up, depth_down): what it raises or the
\* new GraphModel it returns.
get_subgraph(model, root_ids, depth_up, depth_down) ==
  IF depth_up < 0 \/ depth_down < 0
    THEN [raised |-> "ValueError", model |-> NoModel]
  ELSE IF \E k \in 1..Len(root_ids) : ~ValidReference(model.nodes, model.links, root_ids[k])
    THEN [raised |-> "KeyError", model |-> NoModel]
  ELSE
    LET collected == Collected(model, root_ids, depth_up, depth_down)
        new_nodes == SelectSeq(model.nodes, LAMBDA node : node.id \in collected)
        new_links == SelectSeq(model.links, LAMBDA link : KeptLink(link, collected))
        new_model == GraphModel(new_nodes, new_links)
    IN IF new_model.ok THEN [raised |-> "", model |-> new_model]
       ELSE [raised |-> "InvalidReferenceError", model |-> new_model]

\* ------------------------------------------------------------- graph_utils
\* g.add_edge(source_id, target_id): the edges in the order they were first
\* added.
AddEdge(edges, source_id, target_id) ==
  IF \E k \in 1..Len(edges) : edges[k] = <<source_id, target_id>> THEN edges
  ELSE Append(edges, <<source_id, target_id>>)

\* The source loop of _build_support_graph for one link: an edge for every
\* source that is a node.
RECURSIVE SupportEdgesOfLink(_, _, _, _)
SupportEdgesOfLink(graph, link, k, edges) ==
  IF k > Len(link.source_ids) THEN edges
  ELSE SupportEdgesOfLink(graph, link, k + 1,
         IF HasKey(graph.nodes, link.source_ids[k])
           THEN AddEdge(edges, link.source_ids[k], link.target_id)
           ELSE edges)

\* The link loop of _build_support_graph: links that are not supports are
\* skipped under support_only, and so are links whose target is no node.
RECURSIVE SupportEdges(_, _, _, _)
SupportEdges(graph, support_only, i, edges) ==
  IF i > Len(graph.links) THEN edges
  ELSE LET link == graph.links[i]
       IN SupportEdges(graph, support_only, i + 1,
            IF support_only /\ link.polarity # "supports" THEN edges
            ELSE IF link.target_id # NoId /\ HasKey(graph.nodes, link.target_id)
              THEN SupportEdgesOfLink(graph, link, 1, edges)
            ELSE edges)

\* _build_support_graph(graph, support_only): the node ids in dict order and
\* the node-to-node edges.
_build_support_graph(graph, support_only) ==
  [nodes |-> [i \in 1..Len(graph.nodes) |-> graph.nodes[i].id],
   edges |-> SupportEdges(graph, support_only, 1, << >>)]

\* G.in_degree(v)
InDegree(g, v) == Cardinality({k \in 1..Len(g.edges) : g.edges[k][2] = v})

\* G.neighbors(v), in the order the edges were added
Neighbors(g, v) ==
  LET out == SelectSeq(g.edges, LAMBDA e : e[1] = v)
  IN [k \in 1..Len(out) |-> out[k][2]]

\* nx.topological_generations, the loop over the children of one node: each
\* loses one incoming edge and joins the next generation when none is left.
RECURSIVE ReleaseChildren(_, _, _, _)
ReleaseChildren(children, j, indegree_map, zero_indegree) ==
  IF j > Len(children) THEN [indegree_map |-> indegree_map, zero_indegree |-> zero_indegree]
  ELSE LET child == children[j]
           left == indegree_map[child] - 1
       IN ReleaseChildren(children, j + 1, [indegree_map EXCEPT ![child] = left],
            IF left = 0 THEN Append(zero_indegree, child) ELSE zero_indegree)

\* nx.topological_generations, the loop over the nodes of one generation
RECURSIVE ReleaseGeneration(_, _, _, _, _)
ReleaseGeneration(g, this_generation, i, indegree_map, zero_indegree) ==
  IF i > Len(this_generation)
    THEN [indegree_map |-> indegree_map, zero_indegree |-> zero_indegree]
  ELSE LET released == ReleaseChildren(Neighbors(g, this_generation[i]), 1,
                                       indegree_map, zero_indegree)
       IN ReleaseGeneration(g, this_generation, i + 1,
                            released.indegree_map, released.zero_indegree)

\* nx.topological_sort(g): the generations one after another, and
\* NetworkXUnfeasible when nodes with incoming edges are left over.
RECURSIVE TopologicalGenerations(_, _, _, _)
TopologicalGenerations(g, zero_indegree, indegree_map, order) ==
  IF zero_indegree = << >>
    THEN [unfeasible |-> \E v \in DOMAIN indegree_map : indegree_map[v] > 0,
          order |-> order]
  ELSE LET released == ReleaseGeneration(g, zero_indegree, 1, indegree_map, << >>)
       IN TopologicalGenerations(g, released.zero_indegree, released.indegree_map,
                                 order \o zero_indegree)

nx_topological_sort(g) ==
  LET ids == {g.nodes[i] : i \in 1..Len(g.nodes)}
      indegree_map == [v \in ids |-> InDegree(g, v)]
      zero_indegree == SelectSeq(g.nodes, LAMBDA v : indegree_map[v] = 0)
  IN TopologicalGenerations(g, zero_indegree, indegree_map, << >>)

\* The flattened graph with every link, whatever its polarity.
EveryPolarity == FALSE

\* The flattened graph with the supports links only.
SupportsOnly == TRUE

\* check_acyclic(graph): nx.is_directed_acyclic_graph of the flattened graph
\* of all links.
check_acyclic(graph) ==
  ~nx_topological_sort(_build_support_graph(graph, EveryPolarity)).unfeasible

\* The flattened graph topological_sort orders.
SortedGraph(graph) == _build_support_graph(graph, SupportsOnly)

\* topological_sort(graph): the order, or ValueError on NetworkXUnfeasible.
topological_sort(graph) ==
  LET sorted == nx_topological_sort(SortedGraph(graph))
  IN IF sorted.unfeasible THEN [raised |-> "ValueError", order |-> << >>]
     ELSE [raised |-> "", order |-> sorted.order]

\* get_roots: the sources named by the links, whatever their polarity
AllSources(graph) ==
  UNION {{graph.links[i].source_ids[k] : k \in 1..Len(graph.links[i].source_ids)} :
           i \in 1..Len(graph.links)}

\* get_roots(graph): the node ids, in dict order, that no link names as a
\* source.
get_roots(graph) ==
  LET node_ids == [i \in 1..Len(graph.nodes) |-> graph.nodes[i].id]
  IN SelectSeq(node_ids, LAMBDA node_id : node_id \notin AllSources(graph))

\* ------------------------------------------------------------------ sorting
\* key=lambda lnk: (lnk.get("polarity", ""), lnk.get("id", ""))
LinkKeyLess(l, m) ==
  \/ StrRank(l.polarity) < StrRank(m.polarity)
  \/ (l.polarity = m.polarity /\ IdLess(l.id, m.id))

RECURSIVE SortLinks(_)
SortLinks(S) ==
  IF S = {} THEN << >>
  ELSE LET first == CHOOSE l \in S : \A m \in S \ {l} : LinkKeyLess(l, m)
       IN <<first>> \o SortLinks(S \ {first})

\* list.sort(key=content) is stable: equal contents keep their list order.
RECURSIVE InsertByContent(_, _, _)
InsertByContent(sorted, node, i) ==
  IF i > Len(sorted) THEN Append(sorted, node)
  ELSE IF ContentLess(node.content, sorted[i].content)
    THEN SubSeq(sorted, 1, i - 1) \o <<node>> \o SubSeq(sorted, i, Len(sorted))
  ELSE InsertByContent(sorted, node, i + 1)

RECURSIVE SortByContent(_, _, _)
SortByContent(nodes, i, sorted) ==
  IF i > Len(nodes) THEN sorted
  ELSE SortByContent(nodes, i + 1, InsertByContent(sorted, nodes[i], 1))

\* ---------------------------------------------------------- OutlineExporter
\* f"{number}. [Conclusion] {content}"
ConclusionLine(number, content) ==
  [blank |-> FALSE, indent |-> 0, number |-> number, dot |-> TRUE,
   b1 |-> "Conclusion", b2 |-> "", body |-> content]

\* f"{indent_str}{source_number} [{polarity}] (see {existing_number})"
BackrefLine(indent, number, polarity, existing_number) ==
  [blank |-> FALSE, indent |-> IndentUnit * indent, number |-> number, dot |-> FALSE,
   b1 |-> polarity, b2 |-> "", body |-> SeeContent(existing_number)]

\* _format_node_line: f"{indent_str}{number} [{polarity}] [{node_type}] {content}"
FormatNodeLine(node, polarity, number, indent) ==
  [blank |-> FALSE, indent |-> IndentUnit * indent, number |-> number, dot |-> FALSE,
   b1 |-> polarity, b2 |-> node.type, body |-> node.content]

\* The exporter's position in its output: the registry, the lines so far and,
\* line by line, the id of the node the line was written for.
Emit(acc, line, id) ==
  [reg |-> acc.reg, lines |-> Append(acc.lines, line), ids |-> Append(acc.ids, id)]
Register(acc, id, number) ==
  [reg |-> MapPut(acc.reg, id, number), lines |-> acc.lines, ids |-> acc.ids]

\* The sources of the warrant links, link after link, in source order.
RECURSIVE WarrantSources(_, _)
WarrantSources(warrant_links, i) ==
  IF i > Len(warrant_links) THEN << >>
  ELSE warrant_links[i].source_ids \o WarrantSources(warrant_links, i + 1)

\* Links that target this link, sorted by (polarity, id).
WarrantLinks(model, link_id) ==
  SortLinks({model.links[i] : i \in {j \in 1..Len(model.links) : model.links[j].target_id = link_id}})

RECURSIVE FormatLinkSubtree(_, _, _, _, _)
RECURSIVE SourcesLoop(_, _, _, _, _, _)
RECURSIVE GetChildrenLines(_, _, _, _, _)
RECURSIVE ChildrenLoop(_, _, _, _, _, _)
RECURSIVE WarrantLoop(_, _, _, _, _, _, _)

\* _get_children_lines: the incoming links of a node, numbered parent.1, parent.2, ...
ChildrenLoop(model, incoming_links, parent_number, indent, child_index, acc) ==
  IF child_index > Len(incoming_links) THEN acc
  ELSE ChildrenLoop(model, incoming_links, parent_number, indent, child_index + 1,
         FormatLinkSubtree(model, incoming_links[child_index],
                           Child(parent_number, child_index), indent, acc))

\* _get_children_lines going through the incoming links of the node twice.
GetChildrenLinesTwice(model, node_id, parent_number, indent, acc) ==
  ChildrenLoop(model, SortLinks(get_incoming_links(model, node_id)),
               parent_number, indent, 1,
               ChildrenLoop(model, SortLinks(get_incoming_links(model, node_id)),
                            parent_number, indent, 1, acc))

GetChildrenLines(model, node_id, parent_number, indent, acc) ==
  ChildrenLoop(model, SortLinks(get_incoming_links(model, node_id)),
               parent_number, indent, 1, acc)

\* _get_warrant_lines: the loop over the sources of the warrant links.
WarrantLoop(model, source_ids, parent_number, indent, j, warrant_index, acc) ==
  IF j > Len(source_ids) THEN acc
  ELSE
    LET source_id == source_ids[j]
        warrant_number == WarrantNumber(parent_number, warrant_index)
    IN IF source_id \in DOMAIN acc.reg
         THEN WarrantLoop(model, source_ids, parent_number, indent, j + 1,
                warrant_index + 1,
                Emit(acc, BackrefLine(indent, warrant_number, "warrant",
                                      acc.reg[source_id]), source_id))
       ELSE IF HasKey(model.nodes, source_id)
         THEN WarrantLoop(model, source_ids, parent_number, indent, j + 1,
                warrant_index + 1,
                GetChildrenLines(model, source_id, warrant_number, indent + 1,
                  Register(Emit(acc, FormatNodeLine(DictGet(model.nodes, source_id),
                                                    "warrant", warrant_number, indent),
                                source_id),
                           source_id, warrant_number)))
       ELSE WarrantLoop(model, source_ids, parent_number, indent, j + 1,
                        warrant_index, acc)

GetWarrantLines(model, link_id, parent_number, indent, acc) ==
  WarrantLoop(model, WarrantSources(WarrantLinks(model, link_id), 1),
              parent_number, indent, 1, 1, acc)

\* Every source under the number of the link itself.
SourceNumberOfLink(link, number, k) == number

\* A multi-source link numbers its k-th source number.k, a single-source
\* link numbers its source number.
SourceNumber(link, number, k) ==
  IF Len(link.source_ids) > 1 THEN Child(number, k) ELSE number

\* _format_link_subtree: the loop over the sources of the link.
SourcesLoop(model, link, number, indent, k, acc) ==
  IF k > Len(link.source_ids) THEN acc
  ELSE
    LET source_id == link.source_ids[k]
        source_number == SourceNumber(link, number, k)
    IN IF source_id \in DOMAIN acc.reg
         THEN SourcesLoop(model, link, number, indent, k + 1,
                Emit(acc, BackrefLine(indent, source_number, link.polarity,
                                      acc.reg[source_id]), source_id))
       ELSE IF HasKey(model.nodes, source_id)
         THEN SourcesLoop(model, link, number, indent, k + 1,
                GetChildrenLines(model, source_id, source_number, indent + 1,
                  Register(Emit(acc, FormatNodeLine(DictGet(model.nodes, source_id),
                                                    link.polarity, source_number, indent),
                                source_id),
                           source_id, source_number)))
       ELSE SourcesLoop(model, link, number, indent, k + 1, acc)

FormatLinkSubtree(model, link, number, indent, acc) ==
  LET sources == SourcesLoop(model, link, number, indent, 1, acc)
  IN IF link.id # NoId
       THEN GetWarrantLines(model, link.id, number, indent, sources)
       ELSE sources

\* _format_conclusion_tree: the header, the registration, the incoming links.
FormatConclusionTree(model, node, number, acc) ==
  ChildrenLoop(model, SortLinks(get_incoming_links(model, node.id)), number, 1, 1,
               Register(Emit(acc, ConclusionLine(number, node.content), node.id),
                        node.id, number))

\* The Conclusion nodes in dict order, then sorted by content.
RECURSIVE SelectType(_, _, _)
SelectType(nodes, type, i) ==
  IF i > Len(nodes) THEN << >>
  ELSE (IF nodes[i].type = type THEN <<nodes[i]>> ELSE << >>)
         \o SelectType(nodes, type, i + 1)

Conclusions(model) == SortByContent(SelectType(model.nodes, "Conclusion", 1), 1, << >>)

RECURSIVE SectionsLoop(_, _, _, _)
SectionsLoop(model, conclusions, i, acc) ==
  IF i > Len(conclusions) THEN acc
  ELSE SectionsLoop(model, conclusions, i + 1,
                    FormatConclusionTree(model, conclusions[i], <<i>>, acc))

\* "\n\n".join(...) of the lines, as the physical lines split('\n') gives back:
\* one blank line between two lines, and the single empty line of "".
RECURSIVE JoinLines(_, _)
JoinLines(lines, i) ==
  IF Len(lines) = 0 THEN <<BlankLine>>
  ELSE IF i >= Len(lines) THEN <<lines[i]>>
  ELSE <<lines[i], BlankLine>> \o JoinLines(lines, i + 1)

\* The registry of the previous call, kept.
KeepRegistry(node_registry) == node_registry

\* self._node_registry = {} at the start of every export.
ResetRegistry(node_registry) == << >>

\* export(model), on an exporter whose _node_registry is node_registry:
\* the registry it leaves behind and the text it returns.
ExportRun(node_registry, model) ==
  SectionsLoop(model, Conclusions(model), 1,
               [reg |-> ResetRegistry(node_registry), lines |-> << >>, ids |-> << >>])

ExportText(run) == JoinLines(run.lines, 1)

\* ------------------------------------------------------------ OutlineParser
\* The number group of LINE_PATTERN, \d+(?:\.\d+)*(?:w\d+)?, followed by
\* \.?\s+ : dotted segments, and a warrant segment only as the last one.
NumberMatches(number) ==
  /\ Len(number) >= 1
  /\ number[1] > 0
  /\ \A i \in 1..(Len(number) - 1) : number[i] > 0

\* LINE_PATTERN.match(line): a number, a non-empty first bracket and a
\* non-empty rest of the line.
LineMatches(line) ==
  /\ NumberMatches(line.number)
  /\ line.b1 # ""
  /\ line.body # NoContent

\* BACKREF_PATTERN, ^\(see\s+(\d+(?:\.\d+)*)\)$ : dotted segments only.
BackrefMatches(body) ==
  /\ body.see # NoNumber
  /\ \A i \in 1..Len(body.see) : body.see[i] > 0

\* 'w' in number
HasWarrantSegment(number) == \E i \in 1..Len(number) : number[i] < 0

RECURSIVE FirstWarrantSegment(_, _)
FirstWarrantSegment(number, i) ==
  IF number[i] < 0 THEN i ELSE FirstWarrantSegment(number, i + 1)

\* _get_parent_number: number.split('w')[0], or the number without its last
\* dotted segment, or None for a single segment.
GetParentNumber(number) ==
  IF HasWarrantSegment(number)
    THEN SubSeq(number, 1, FirstWarrantSegment(number, 1) - 1)
  ELSE IF Len(number) <= 1 THEN NoNumber
  ELSE SubSeq(number, 1, Len(number) - 1)

\* _parse_line reading the number only as deep as the line is indented.
ParseLineByIndent(line, line_number) ==
  IF ~LineMatches(line)
    THEN [raised |-> TRUE, message |-> "Malformed line"]
  ELSE IF line.indent % IndentUnit # 0
    THEN [raised |-> TRUE, message |-> "Invalid indentation"]
  ELSE
    LET conclusion == line.b1 = "Conclusion"
        backref == ~conclusion /\ BackrefMatches(line.body)
        indent_level == line.indent \div IndentUnit
        number == IF indent_level + 1 < Len(line.number)
                    THEN SubSeq(line.number, 1, indent_level + 1) ELSE line.number
    IN [raised |-> FALSE, message |-> "",
        line_number |-> line_number,
        indent_level |-> indent_level,
        number |-> number,
        polarity |-> IF conclusion THEN "" ELSE line.b1,
        node_type |-> IF conclusion THEN "Conclusion"
                      ELSE IF line.b2 # "" THEN line.b2 ELSE "Proposition",
        content |-> IF backref THEN NoContent ELSE line.body,
        backref |-> IF backref THEN line.body.see ELSE NoNumber,
        is_warrant |-> HasWarrantSegment(number)]

\* _parse_line: the ParsedLine, or the OutlineParseError raised.
ParseLine(line, line_number) ==
  IF ~LineMatches(line)
    THEN [raised |-> TRUE, message |-> "Malformed line"]
  ELSE IF line.indent % IndentUnit # 0
    THEN [raised |-> TRUE, message |-> "Invalid indentation"]
  ELSE
    LET conclusion == line.b1 = "Conclusion"
        backref == ~conclusion /\ BackrefMatches(line.body)
    IN [raised |-> FALSE, message |-> "",
        line_number |-> line_number,
        indent_level |-> line.indent \div IndentUnit,
        number |-> line.number,
        polarity |-> IF conclusion THEN "" ELSE line.b1,
        node_type |-> IF conclusion THEN "Conclusion"
                      ELSE IF line.b2 # "" THEN line.b2 ELSE "Proposition",
        content |-> IF backref THEN NoContent ELSE line.body,
        backref |-> IF backref THEN line.body.see ELSE NoNumber,
        is_warrant |-> HasWarrantSegment(line.number)]

\* The loop over the physical lines, an error carrying the position of the
\* line among the lines that are not blank.
RECURSIVE ParseLinesCountingContent(_, _, _)
ParseLinesCountingContent(text, i, parsed_lines) ==
  IF i > Len(text) THEN [raised |-> FALSE, line_number |-> 0, message |-> "",
                         parsed_lines |-> parsed_lines]
  ELSE IF text[i].blank THEN ParseLinesCountingContent(text, i + 1, parsed_lines)
  ELSE LET p == ParseLine(text[i], Len(parsed_lines) + 1)
       IN IF p.raised
            THEN [raised |-> TRUE, line_number |-> Len(parsed_lines) + 1,
                  message |-> p.message, parsed_lines |-> << >>]
            ELSE ParseLinesCountingContent(text, i + 1, Append(parsed_lines, p))

\* The loop over the physical lines, a blank line handed to _parse_line like
\* any other.
RECURSIVE ParseLinesReadingBlank(_, _, _)
ParseLinesReadingBlank(text, i, parsed_lines) ==
  IF i > Len(text) THEN [raised |-> FALSE, line_number |-> 0, message |-> "",
                         parsed_lines |-> parsed_lines]
  ELSE LET p == ParseLine(text[i], i)
       IN IF p.raised
            THEN [raised |-> TRUE, line_number |-> i, message |-> p.message,
                  parsed_lines |-> << >>]
            ELSE ParseLinesReadingBlank(text, i + 1, Append(parsed_lines, p))

\* The loop over the physical lines: blank lines are skipped, the first line
\* _parse_line rejects raises.
RECURSIVE ParseLines(_, _, _)
ParseLines(text, i, parsed_lines) ==
  IF i > Len(text) THEN [raised |-> FALSE, line_number |-> 0, message |-> "",
                         parsed_lines |-> parsed_lines]
  ELSE IF text[i].blank THEN ParseLines(text, i + 1, parsed_lines)
  ELSE LET p == ParseLine(text[i], i)
       IN IF p.raised
            THEN [raised |-> TRUE, line_number |-> i, message |-> p.message,
                  parsed_lines |-> << >>]
            ELSE ParseLines(text, i + 1, Append(parsed_lines, p))

\* First pass (warrants = FALSE) and warrant-node pass (warrants = TRUE): a
\* node for every line that is not a back-reference.
RECURSIVE CreateNodes(_, _, _, _)
CreateNodes(parsed_lines, warrants, i, st) ==
  IF i > Len(parsed_lines) THEN st
  ELSE LET parsed == parsed_lines[i]
       IN IF parsed.backref # NoNumber \/ parsed.is_warrant # warrants
            THEN CreateNodes(parsed_lines, warrants, i + 1, st)
            ELSE LET node_id == NodeId(Len(st.nodes) + 1)
                 IN CreateNodes(parsed_lines, warrants, i + 1,
                      [nodes |-> Append(st.nodes,
                                   [id |-> node_id, type |-> parsed.node_type,
                                    content |-> parsed.content]),
                       number_to_node_id |-> MapPut(st.number_to_node_id,
                                                    parsed.number, node_id)])

\* The source of a line: the node of its back-reference or of its number, or
\* NoId when number_to_node_id.get(...) is None.
SourceNodeId(number_to_node_id, parsed) ==
  LET key == IF parsed.backref # NoNumber THEN parsed.backref ELSE parsed.number
  IN IF key \in DOMAIN number_to_node_id THEN number_to_node_id[key] ELSE NoId

\* parsed.polarity or "supports"
PolarityOf(parsed) == IF parsed.polarity = "" THEN "supports" ELSE parsed.polarity

\* A key that is the same for all the parent numbers under one grandparent:
\* the grandparent's first child number.
GroupKeyOfGrandparent(parent_number, polarity) ==
  <<Append(GetParentNumber(parent_number), 1), polarity>>

\* The key of a co-premise group.
GroupKey(parent_number, polarity) == <<parent_number, polarity>>

RECURSIVE IndexOfGroup(_, _, _)
IndexOfGroup(groups, key, i) ==
  IF i > Len(groups) THEN 0
  ELSE IF groups[i].key = key THEN i
  ELSE IndexOfGroup(groups, key, i + 1)

\* copremise_groups[key].append(parsed), a defaultdict in insertion order.
GroupAppend(groups, key, parsed) ==
  LET i == IndexOfGroup(groups, key, 1)
  IN IF i = 0 THEN Append(groups, [key |-> key, siblings |-> <<parsed>>])
     ELSE [groups EXCEPT ![i].siblings = Append(@, parsed)]

\* Second pass: single-source links at once, co-premises into their groups.
RECURSIVE DetermineLinks(_, _, _, _)
DetermineLinks(parsed_lines, number_to_node_id, i, st) ==
  IF i > Len(parsed_lines) THEN st
  ELSE
    LET parsed == parsed_lines[i]
        parent_number == GetParentNumber(parsed.number)
        source_node_id == SourceNodeId(number_to_node_id, parsed)
        grandparent == GetParentNumber(parent_number)
        skip == DetermineLinks(parsed_lines, number_to_node_id, i + 1, st)
    IN IF parsed.node_type = "Conclusion" THEN skip
       ELSE IF parsed.is_warrant THEN skip
       ELSE IF parent_number = NoNumber THEN skip
       ELSE IF parsed.backref # NoNumber /\ source_node_id = NoId
         THEN [st EXCEPT !.raised = TRUE, !.line_number = parsed.line_number,
                         !.message = "Back-reference not found",
                         !.missing = parsed.backref]
       ELSE IF source_node_id = NoId THEN skip
       ELSE IF parent_number \in DOMAIN number_to_node_id
         THEN LET link_id == LinkId(Len(st.links) + 1)
              IN DetermineLinks(parsed_lines, number_to_node_id, i + 1,
                   [st EXCEPT !.links = Append(@,
                                 [id |-> link_id, source_ids |-> <<source_node_id>>,
                                  target_id |-> number_to_node_id[parent_number],
                                  polarity |-> PolarityOf(parsed)]),
                              !.number_to_link_id = MapPut(@, parsed.number, link_id)])
       ELSE IF grandparent = NoNumber THEN skip
       ELSE IF grandparent \notin DOMAIN number_to_node_id THEN skip
       ELSE DetermineLinks(parsed_lines, number_to_node_id, i + 1,
              [st EXCEPT !.copremise_groups =
                 GroupAppend(@, GroupKey(parent_number, PolarityOf(parsed)), parsed)])

\* The sources of a co-premise group that resolve, in line order.
RECURSIVE GroupSources(_, _, _)
GroupSources(number_to_node_id, siblings, i) ==
  IF i > Len(siblings) THEN << >>
  ELSE LET s == SourceNodeId(number_to_node_id, siblings[i])
       IN (IF s # NoId THEN <<s>> ELSE << >>)
            \o GroupSources(number_to_node_id, siblings, i + 1)

\* The number the link of a co-premise group is recorded under in
\* number_to_link_id: the number of its first source that resolves.
RECURSIVE FirstSourceNumber(_, _, _)
FirstSourceNumber(number_to_node_id, siblings, i) ==
  IF i > Len(siblings) THEN NoNumber
  ELSE IF SourceNodeId(number_to_node_id, siblings[i]) # NoId THEN siblings[i].number
  ELSE FirstSourceNumber(number_to_node_id, siblings, i + 1)

\* Third pass: one link per co-premise group.
RECURSIVE CreateGroupLinks(_, _, _)
CreateGroupLinks(number_to_node_id, i, st) ==
  IF i > Len(st.copremise_groups) THEN st
  ELSE
    LET group == st.copremise_groups[i]
        parent_number == group.key[1]
        grandparent == GetParentNumber(parent_number)
        source_ids == GroupSources(number_to_node_id, group.siblings, 1)
        link_id == LinkId(Len(st.links) + 1)
    IN IF \/ grandparent = NoNumber
          \/ grandparent \notin DOMAIN number_to_node_id
          \/ source_ids = << >>
         THEN CreateGroupLinks(number_to_node_id, i + 1, st)
         ELSE CreateGroupLinks(number_to_node_id, i + 1,
                [st EXCEPT !.links = Append(@,
                              [id |-> link_id, source_ids |-> source_ids,
                               target_id |-> number_to_node_id[grandparent],
                               polarity |-> group.key[2]]),
                           !.number_to_link_id =
                              MapPut(@, FirstSourceNumber(number_to_node_id,
                                                          group.siblings, 1), link_id)])

\* A fourth pass that attaches every warrant to the node at its parent number.
RECURSIVE CreateWarrantLinksToNodes(_, _, _, _)
CreateWarrantLinksToNodes(parsed_lines, number_to_node_id, i, st) ==
  IF i > Len(parsed_lines) THEN st
  ELSE
    LET parsed == parsed_lines[i]
        source_node_id == SourceNodeId(number_to_node_id, parsed)
        parent_number == GetParentNumber(parsed.number)
        skip == CreateWarrantLinksToNodes(parsed_lines, number_to_node_id, i + 1, st)
    IN IF ~parsed.is_warrant \/ source_node_id = NoId THEN skip
       ELSE IF parent_number \notin DOMAIN number_to_node_id THEN skip
       ELSE CreateWarrantLinksToNodes(parsed_lines, number_to_node_id, i + 1,
              [st EXCEPT !.links = Append(@,
                 [id |-> LinkId(Len(st.links) + 1), source_ids |-> <<source_node_id>>,
                  target_id |-> number_to_node_id[parent_number],
                  polarity |-> "supports"])])

\* Fourth pass: a supports link from every warrant line to the link recorded
\* under its parent number.
RECURSIVE CreateWarrantLinks(_, _, _, _)
CreateWarrantLinks(parsed_lines, number_to_node_id, i, st) ==
  IF i > Len(parsed_lines) THEN st
  ELSE
    LET parsed == parsed_lines[i]
        source_node_id == SourceNodeId(number_to_node_id, parsed)
        parent_number == GetParentNumber(parsed.number)
        skip == CreateWarrantLinks(parsed_lines, number_to_node_id, i + 1, st)
    IN IF ~parsed.is_warrant THEN skip
       ELSE IF source_node_id = NoId THEN skip
       ELSE IF parent_number = NoNumber THEN skip
       ELSE IF parent_number \notin DOMAIN st.number_to_link_id THEN skip
       ELSE CreateWarrantLinks(parsed_lines, number_to_node_id, i + 1,
              [st EXCEPT !.links = Append(@,
                 [id |-> LinkId(Len(st.links) + 1), source_ids |-> <<source_node_id>>,
                  target_id |-> st.number_to_link_id[parent_number],
                  polarity |-> "supports"])])

NoLinks ==
  [raised |-> FALSE, line_number |-> 0, message |-> "", missing |-> NoNumber,
   links |-> << >>, number_to_link_id |-> << >>, copremise_groups |-> << >>]

\* parse(text): what it raises or returns, with the tables it built.
Parse(text) ==
  LET lines == ParseLines(text, 1, << >>)
      created == CreateNodes(lines.parsed_lines, TRUE, 1,
                   CreateNodes(lines.parsed_lines, FALSE, 1,
                               [nodes |-> << >>, number_to_node_id |-> << >>]))
      determined == DetermineLinks(lines.parsed_lines, created.number_to_node_id, 1, NoLinks)
      linked == CreateWarrantLinks(lines.parsed_lines, created.number_to_node_id, 1,
                  CreateGroupLinks(created.number_to_node_id, 1, determined))
      failed(line_number, message, missing) ==
        [raised |-> TRUE, line_number |-> line_number, message |-> message,
         missing |-> missing, parsed_lines |-> << >>,
         number_to_node_id |-> << >>, number_to_link_id |-> << >>,
         copremise_groups |-> << >>, model |-> NoModel]
  IN IF lines.raised THEN failed(lines.line_number, lines.message, NoNumber)
     ELSE IF lines.parsed_lines = << >>
       THEN [raised |-> FALSE, line_number |-> 0, message |-> "", missing |-> NoNumber,
             parsed_lines |-> << >>, number_to_node_id |-> << >>,
             number_to_link_id |-> << >>, copremise_groups |-> << >>,
             model |-> GraphModel(<< >>, << >>)]
     ELSE IF determined.raised
       THEN failed(determined.line_number, determined.message, determined.missing)
     ELSE [raised |-> FALSE, line_number |-> 0, message |-> "", missing |-> NoNumber,
           parsed_lines |-> lines.parsed_lines,
           number_to_node_id |-> created.number_to_node_id,
           number_to_link_id |-> linked.number_to_link_id,
           copremise_groups |-> linked.copremise_groups,
           model |-> GraphModel(created.nodes, linked.links)]

\* -------------------------------------------------------------------- state
VARIABLES
  data_nodes,      \* data["nodes"] of the caller: node records, in list order
  data_links,      \* data["links"] of the caller: link records, in list order
  model,           \* the GraphModel built from them (NoModel before)
  node_registry,   \* OutlineExporter._node_registry of the one exporter instance
  exports,         \* the export calls made on that instance so far
  entry_registry,  \* its _node_registry when the latest export call began
  sub,             \* the latest model.get_subgraph call: arguments and outcome
  text,            \* the outline text: exported, or written by the caller
  parsed,          \* what OutlineParser.parse(text) raised or returned
  pc               \* "data" | "failed" | "model" | "text" | "write" | "parsed"

vars ==
  <<data_nodes, data_links, model, node_registry, exports, entry_registry, sub,
    text, parsed, pc>>

NoSubgraph ==
  [root_ids |-> << >>, depth_up |-> 0, depth_down |-> 0, raised |-> "", model |-> NoModel]
NotParsed ==
  [raised |-> FALSE, line_number |-> 0, message |-> "", missing |-> NoNumber,
   parsed_lines |-> << >>, number_to_node_id |-> << >>, number_to_link_id |-> << >>,
   copremise_groups |-> << >>, model |-> NoModel]

NodeTypes == {"Conclusion", "Proposition", "Datum"}
Polarities == {"supports", "undermines"}
Contents == {PlainContent(t) : t \in 1..MaxContent}

\* The identifiers a link of the caller's data may name.
Refs == {NodeId(k) : k \in 1..MaxNodes} \cup {LinkId(k) : k \in 1..MaxLinks}
SourceLists == UNION {[1..n -> Refs] : n \in 1..MaxSources}

RECURSIVE CountSources(_, _)
CountSources(links, i) ==
  IF i > Len(links) THEN 0 ELSE Len(links[i].source_ids) + CountSources(links, i + 1)

\* ----------------------------------------------------- the lines of a caller
\* A written line: f"{indent}{number} [{b1}] [{b2}] {body}", the second
\* bracket left out when b2 is "".
TextLine(indent, number, b1, b2, body) ==
  [blank |-> FALSE, indent |-> indent, number |-> number, dot |-> b1 = "Conclusion",
   b1 |-> b1, b2 |-> b2, body |-> body]

\* A number no line of DocLines or RawLines carries.
Unassigned == <<9>>

\* Well-formed lines under conclusion 1: content lines two and three levels
\* deep, back-references to 1.1 and to a number never assigned, warrants of 1.1.
DocNumbers == {<<1, 1>>, <<1, 2>>, <<1, 1, 1>>, <<1, 1, 2>>, <<1, 2, 1>>}
DocLines ==
  {TextLine(0, <<1>>, "Conclusion", "", PlainContent(1))}
    \cup {TextLine(IndentUnit * (Len(n) - 1), n, p, "Datum", PlainContent(1)) :
            n \in DocNumbers, p \in Polarities}
    \cup {TextLine(IndentUnit * (Len(n) - 1), n, "supports", "", SeeContent(r)) :
            n \in DocNumbers, r \in {<<1, 1>>, Unassigned}}
    \cup {TextLine(IndentUnit, <<1, 1, -1>>, "warrant", "", b) :
            b \in {PlainContent(1), SeeContent(<<1>>), SeeContent(Unassigned)}}

\* The lines of a conclusion with two co-premises under the number 1.1, which
\* no line carries, and a warrant 1.1w1, as the exporter writes them.
GroupLines ==
  {TextLine(0, <<1>>, "Conclusion", "", PlainContent(1)),
   TextLine(2 * IndentUnit, <<1, 1, 1>>, "supports", "Datum", PlainContent(1)),
   TextLine(2 * IndentUnit, <<1, 1, 2>>, "supports", "Datum", PlainContent(2)),
   TextLine(2 * IndentUnit, <<1, 1, -1>>, "warrant", "Datum", PlainContent(2))}

\* Lines of any shape: blank, well-formed, with an unresolved back-reference,
\* indented by 4 or by 1, without a bracket, without content, numbered below a
\* warrant ("1.1w1.1"), and with a first bracket that is no polarity.
RawLines ==
  {BlankLine,
   TextLine(0, <<1>>, "Conclusion", "", PlainContent(1)),
   TextLine(IndentUnit, <<1, 1>>, "supports", "Datum", PlainContent(1)),
   TextLine(IndentUnit, <<1, 2>>, "supports", "", SeeContent(Unassigned)),
   TextLine(IndentUnit + 1, <<1, 1>>, "supports", "Datum", PlainContent(1)),
   TextLine(1, <<1>>, "Conclusion", "", PlainContent(1)),
   TextLine(IndentUnit, <<1, 1>>, "", "", PlainContent(1)),
   TextLine(IndentUnit, <<1, 1>>, "supports", "Datum", NoContent),
   TextLine(2 * IndentUnit, <<1, 1, -1, 1>>, "supports", "Datum", PlainContent(1)),
   TextLine(IndentUnit, <<1, 2>>, "maybe", "Datum", PlainContent(2))}

\* ------------------------------------------------------------------ actions
Init ==
  /\ data_nodes = << >>
  /\ data_links = << >>
  /\ model = NoModel
  /\ node_registry = << >>
  /\ exports = 0
  /\ entry_registry = << >>
  /\ sub = NoSubgraph
  /\ text = << >>
  /\ parsed = NotParsed
  /\ pc = "data"

\* The caller appends a node record to data["nodes"], of a graph of at most
\* size nodes and links.
AddNodeWithin(size) ==
  /\ pc = "data"
  /\ data_links = << >>
  /\ Len(data_nodes) < MaxNodes
  /\ Len(data_nodes) < size
  /\ \E type \in NodeTypes, content \in Contents :
       data_nodes' = Append(data_nodes,
         [id |-> NodeId(Len(data_nodes) + 1), type |-> type, content |-> content])
  /\ UNCHANGED <<data_links, model, node_registry, exports, entry_registry, text,
                 parsed, pc, sub>>

AddNode == AddNodeWithin(MaxSize)

\* The caller appends a link record to data["links"].
AddLinkOf(ids, size) ==
  /\ pc = "data"
  /\ Len(data_links) < MaxLinks
  /\ Len(data_nodes) + Len(data_links) < size
  /\ \E id \in ids, source_ids \in SourceLists, target_id \in Refs \cup {NoId},
        polarity \in Polarities :
       /\ CountSources(data_links, 1) + Len(source_ids) <= MaxSources
       /\ data_links' = Append(data_links,
            [id |-> id, source_ids |-> source_ids,
             target_id |-> target_id, polarity |-> polarity])
  /\ UNCHANGED <<data_nodes, model, node_registry, exports, entry_registry, text,
                 parsed, pc, sub>>

AddLinkWithin(size) == AddLinkOf({LinkId(Len(data_links) + 1)}, size)

AddLink == AddLinkWithin(MaxSize)

\* GraphModel(data)
Construct ==
  /\ pc = "data"
  /\ model' = GraphModel(data_nodes, data_links)
  /\ pc' = IF model'.ok THEN "model" ELSE "failed"
  /\ UNCHANGED <<data_nodes, data_links, node_registry, exports, entry_registry,
                 text, parsed, sub>>

\* exporter.export(model), the caller going on at position next
ExportThen(next) ==
  /\ pc = "model"
  /\ LET run == ExportRun(node_registry, model)
     IN /\ node_registry' = run.reg
        /\ text' = ExportText(run)
  /\ exports' = exports + 1
  /\ entry_registry' = node_registry
  /\ pc' = next
  /\ UNCHANGED <<data_nodes, data_links, model, parsed, sub>>

Export == ExportThen("text")

\* OutlineParser().parse(text)
ParseText ==
  /\ pc \in {"text", "write"}
  /\ Len(text) >= 1
  /\ parsed' = Parse(text)
  /\ pc' = "parsed"
  /\ UNCHANGED <<data_nodes, data_links, model, node_registry, exports,
                 entry_registry, text, sub>>

\* Build a graph, export it, parse the text back.
Next == AddNode \/ AddLink \/ Construct \/ Export \/ ParseText

Spec == Init /\ [][Next]_vars

\* The caller turns to another graph, keeping the exporter instance.
Reuse ==
  /\ pc = "text"
  /\ exports < MaxExports
  /\ data_nodes' = << >>
  /\ data_links' = << >>
  /\ model' = NoModel
  /\ text' = << >>
  /\ pc' = "data"
  /\ UNCHANGED <<node_registry, exports, entry_registry, parsed, sub>>

AddReusedNode == AddNodeWithin(MaxReusedSize)
AddReusedLink == AddLinkWithin(MaxReusedSize)

\* Build small graphs one after another and export each with the one exporter.
NextExporter == AddReusedNode \/ AddReusedLink \/ Construct \/ Export \/ Reuse
SpecExporter == Init /\ [][NextExporter]_vars

\* The root ids and depths a caller passes to get_subgraph.
RootLists == UNION {[1..n -> Refs] : n \in 1..MaxRoots}
Depths == (0 - 1)..MaxDepth

\* model.get_subgraph(root_ids, depth_up, depth_down) with arguments drawn from
\* the given sets, the caller going on at position next
GetSubgraphOf(roots, depths, next) ==
  /\ pc = "model"
  /\ \E root_ids \in roots, depth_up \in depths, depth_down \in depths :
       LET result == get_subgraph(model, root_ids, depth_up, depth_down)
       IN /\ sub' = [root_ids |-> root_ids, depth_up |-> depth_up,
                      depth_down |-> depth_down, raised |-> result.raised,
                      model |-> result.model]
          /\ model' = AfterSubgraph(model, result.model)
  /\ pc' = next
  /\ UNCHANGED <<data_nodes, data_links, node_registry, exports, entry_registry,
                 text, parsed>>

GetSubgraph == GetSubgraphOf(RootLists, Depths, "subgraph")

\* Build a small graph and extract subgraphs of it.
NextSubgraph == AddReusedNode \/ AddReusedLink \/ Construct \/ GetSubgraph
SpecSubgraph == Init /\ [][NextSubgraph]_vars

\* Data whose links carry any identifier, those of nodes included.
AddNamedNode == AddNodeWithin(MaxNamedSize)
AddNamedLink == AddLinkOf(Refs, MaxNamedSize)
NextIds == AddNamedNode \/ AddNamedLink \/ Construct
SpecIds == Init /\ [][NextIds]_vars

\* An argument of conclusions and data, of supports links with one source
\* each, on nodes and on links, exported and parsed back.
AddArgumentNode ==
  /\ pc = "data"
  /\ data_links = << >>
  /\ Len(data_nodes) < MaxArgumentNodes
  /\ \E type \in {"Conclusion", "Datum"} :
       data_nodes' = Append(data_nodes,
         [id |-> NodeId(Len(data_nodes) + 1), type |-> type, content |-> PlainContent(1)])
  /\ UNCHANGED <<data_links, model, node_registry, exports, entry_registry, text,
                 parsed, pc, sub>>

AddArgumentLink ==
  /\ pc = "data"
  /\ Len(data_links) < MaxArgumentLinks
  /\ \E source \in 1..Len(data_nodes),
        target_id \in {NodeId(k) : k \in 1..Len(data_nodes)}
                        \cup {LinkId(k) : k \in 1..MaxArgumentLinks} :
       data_links' = Append(data_links,
         [id |-> LinkId(Len(data_links) + 1), source_ids |-> <<NodeId(source)>>,
          target_id |-> target_id, polarity |-> "supports"])
  /\ UNCHANGED <<data_nodes, model, node_registry, exports, entry_registry, text,
                 parsed, pc, sub>>

NextArgument == AddArgumentNode \/ AddArgumentLink \/ Construct \/ Export \/ ParseText
SpecArgument == Init /\ [][NextArgument]_vars

\* One graph, and get_subgraph and export called on it in any order.
SingleRoots == [1..1 -> Refs]
OneHop == {1}
CallSubgraph == GetSubgraphOf(SingleRoots, OneHop, "model")
CallExport == exports < MaxExports /\ ExportThen("model")
NextCalls == AddReusedNode \/ AddReusedLink \/ Construct \/ CallSubgraph \/ CallExport
SpecCalls == Init /\ [][NextCalls]_vars

\* The caller writes one more line of a text.
AppendLineWithin(lines, length) ==
  /\ pc = "write"
  /\ Len(text) < length
  /\ \E line \in lines : text' = Append(text, line)
  /\ UNCHANGED <<data_nodes, data_links, model, node_registry, exports,
                 entry_registry, parsed, pc, sub>>

AppendLine(lines) == AppendLineWithin(lines, MaxLines)

WriteLine == AppendLine(DocLines)
WriteRawLine == AppendLine(RawLines)

InitWrite ==
  /\ data_nodes = << >>
  /\ data_links = << >>
  /\ model = NoModel
  /\ node_registry = << >>
  /\ exports = 0
  /\ entry_registry = << >>
  /\ sub = NoSubgraph
  /\ text = << >>
  /\ parsed = NotParsed
  /\ pc = "write"

\* Write a text of co-premises and warrants and parse it.
WriteGroupLine == AppendLineWithin(GroupLines, MaxGroupLines)
NextGroup == WriteGroupLine \/ ParseText
SpecGroup == InitWrite /\ [][NextGroup]_vars

\* Write a text of well-formed lines and parse it.
NextDoc == WriteLine \/ ParseText
SpecDoc == InitWrite /\ [][NextDoc]_vars

\* Write a text of lines of any shape and parse it.
NextRaw == WriteRawLine \/ ParseText
SpecRaw == InitWrite /\ [][NextRaw]_vars

\* ------------------------------------------------------ what the claims use
NodeIdsOf(g) == {g.nodes[i].id : i \in 1..Len(g.nodes)}
LinkIdsOf(g) == {g.links[i].id : i \in 1..Len(g.links)}

\* The identifiers reachable from a set of identifiers along the edges.
RECURSIVE ReachableFrom(_, _, _)
ReachableFrom(edges, frontier, seen) ==
  LET next == {e[2] : e \in {f \in edges : f[1] \in frontier}} \ seen
  IN IF next = {} THEN seen ELSE ReachableFrom(edges, next, seen \cup next)

\* A directed cycle in the union graph: some edge's head reaches its tail.
HasCycle(g) == \E e \in g.edges : e[1] \in ReachableFrom(g.edges, {e[2]}, {e[2]})

NoDuplicateContent(g) ==
  \A i, j \in 1..Len(g.nodes) : i # j => g.nodes[i].content # g.nodes[j].content

\* g and h are the same graph up to a renaming of node ids and of link ids.
Isomorphic(g, h) ==
  /\ Len(g.nodes) = Len(h.nodes)
  /\ Len(g.links) = Len(h.links)
  /\ \E f \in [NodeIdsOf(g) -> NodeIdsOf(h)], r \in [LinkIdsOf(g) -> LinkIdsOf(h)] :
       LET renamed(id) == IF id \in DOMAIN f THEN f[id]
                          ELSE IF id \in DOMAIN r THEN r[id] ELSE id
       IN /\ \A a, b \in DOMAIN f : a # b => f[a] # f[b]
          /\ \A a, b \in DOMAIN r : a # b => r[a] # r[b]
          /\ \A i \in 1..Len(g.nodes) :
               LET n == g.nodes[i]
                   m == DictGet(h.nodes, f[n.id])
               IN m.type = n.type /\ m.content = n.content
          /\ \A i \in 1..Len(g.links) :
               LET l == g.links[i]
                   m == DictGet(h.links, r[l.id])
               IN /\ m.polarity = l.polarity
                  /\ m.target_id = renamed(l.target_id)
                  /\ m.source_ids = [k \in 1..Len(l.source_ids) |-> renamed(l.source_ids[k])]

RECURSIVE NonBlank(_, _)
NonBlank(lines, i) ==
  IF i > Len(lines) THEN << >>
  ELSE (IF lines[i].blank THEN << >> ELSE <<lines[i]>>) \o NonBlank(lines, i + 1)

Reverse(s) == [i \in 1..Len(s) |-> s[Len(s) + 1 - i]]

\* ------------------------------------------------------------------- claims
\* C1: outline round trip.  For every constructed graph with no two nodes
\* sharing a content and no cycle, parsing its export succeeds and yields a
\* graph isomorphic to it under a renaming of node ids and link ids.
C1_RoundTrip ==
  (pc = "parsed" /\ model.ok /\ NoDuplicateContent(model) /\ ~HasCycle(model))
    => (~parsed.raised /\ parsed.model.ok /\ Isomorphic(model, parsed.model))

\* One Conclusion and k >= 2 distinct non-conclusion nodes, the sources of the
\* only link, which targets the Conclusion.
CoPremiseGraph(g) ==
  /\ g.ok
  /\ Len(g.links) = 1
  /\ LET l == g.links[1]
         k == Len(l.source_ids)
     IN /\ k >= 2
        /\ Len(g.nodes) = k + 1
        /\ \A i, j \in 1..k : i # j => l.source_ids[i] # l.source_ids[j]
        /\ \A i \in 1..k : /\ HasKey(g.nodes, l.source_ids[i])
                           /\ DictGet(g.nodes, l.source_ids[i]).type # "Conclusion"
        /\ HasKey(g.nodes, l.target_id)
        /\ DictGet(g.nodes, l.target_id).type = "Conclusion"

\* C2: co-premise round trip.  Such a graph exports to the Conclusion at
\* number 1 and its k sources at 1.1.1 .. 1.1.k (one parent number, 1.1, which
\* is not the Conclusion's), and parsing that text yields exactly one link,
\* with those k sources in the same order, targeting the Conclusion's node,
\* with the original polarity.
C2_CoPremiseRoundTrip ==
  (pc = "parsed" /\ CoPremiseGraph(model)) =>
    LET l == model.links[1]
        k == Len(l.source_ids)
        lines == NonBlank(text, 1)
        h == parsed.model
    IN /\ Len(lines) = k + 1
       /\ lines[1].number = <<1>>
       /\ lines[1].b1 = "Conclusion"
       /\ lines[1].body = DictGet(model.nodes, l.target_id).content
       /\ \A j \in 1..k :
            /\ lines[j + 1].number = <<1, 1, j>>
            /\ GetParentNumber(lines[j + 1].number) # lines[1].number
            /\ lines[j + 1].body = DictGet(model.nodes, l.source_ids[j]).content
       /\ ~parsed.raised
       /\ h.ok
       /\ Len(h.nodes) = k + 1
       /\ Len(h.links) = 1
       /\ Len(h.links[1].source_ids) = k
       /\ h.links[1].polarity = l.polarity
       /\ HasKey(h.nodes, h.links[1].target_id)
       /\ DictGet(h.nodes, h.links[1].target_id).type = "Conclusion"
       /\ DictGet(h.nodes, h.links[1].target_id).content
            = DictGet(model.nodes, l.target_id).content
       /\ \A i, j \in 1..k : i # j => h.links[1].source_ids[i] # h.links[1].source_ids[j]
       /\ \A j \in 1..k :
            /\ HasKey(h.nodes, h.links[1].source_ids[j])
            /\ DictGet(h.nodes, h.links[1].source_ids[j]).type
                 = DictGet(model.nodes, l.source_ids[j]).type
            /\ DictGet(h.nodes, h.links[1].source_ids[j]).content
                 = DictGet(model.nodes, l.source_ids[j]).content

\* A Conclusion with a Datum and a Proposition of different contents as joint
\* underminers has been exported and parsed back into one two-source link.
C2_Witness ==
  /\ pc = "parsed"
  /\ CoPremiseGraph(model)
  /\ model.links[1].polarity = "undermines"
  /\ DictGet(model.nodes, model.links[1].source_ids[1]).type = "Datum"
  /\ DictGet(model.nodes, model.links[1].source_ids[2]).type = "Proposition"
  /\ DictGet(model.nodes, model.links[1].source_ids[1]).content
       # DictGet(model.nodes, model.links[1].source_ids[2]).content
  /\ Len(parsed.model.links) = 1
  /\ Len(parsed.model.links[1].source_ids) = 2

\* The ids registered by the caller's data, and the ids its links name that
\* are not among them.
RegisteredIds ==
  {data_nodes[i].id : i \in 1..Len(data_nodes)}
    \cup {data_links[i].id : i \in 1..Len(data_links)}
NamedIds ==
  UNION {{data_links[i].source_ids[k] : k \in 1..Len(data_links[i].source_ids)}
           \cup {data_links[i].target_id} : i \in 1..Len(data_links)}
DanglingIds == NamedIds \ RegisteredIds

\* C7: referential integrity.  When some link of the data names, as a source
\* or as its target, an id that is neither a registered node id nor a
\* registered link id, the construction raises InvalidReferenceError and the
\* error names such an id.
C7_ReferentialIntegrity ==
  (pc \in {"model", "failed"} /\ DanglingIds # {})
    => (~model.ok /\ model.error.raised /\ model.error.ref_id \in DanglingIds)

\* C8: export determinism across calls.  Whatever the exporter instance
\* exported before, the text an export call returns is the text a fresh
\* exporter returns for the same graph.
C8_ExportDeterminism ==
  pc = "text" => text = ExportText(ExportRun(<< >>, model))

\* A second export call on the instance began with a registry that already
\* held a source of the graph being exported, and has returned.
C8_Witness ==
  /\ pc = "text"
  /\ exports = 2
  /\ \E i \in 1..Len(model.links) :
       /\ model.links[i].source_ids[1] \in DOMAIN entry_registry
       /\ HasKey(model.nodes, model.links[i].target_id)
       /\ DictGet(model.nodes, model.links[i].target_id).type = "Conclusion"
       /\ model.links[i].source_ids[1] # model.links[i].target_id

\* C9: conclusion numbering depends only on the sort keys.  The graph built
\* from the same nodes and links registered in the opposite order exports to
\* the same text.
C9_OrderIndependent ==
  pc = "text" =>
    LET other == GraphModel(Reverse(data_nodes), Reverse(data_links))
    IN other.ok /\ ExportText(ExportRun(<< >>, other)) = text

\* ------------------------------------------- reading a parse, line by line
\* The lines of a parse that returned, by their index in parsed_lines.
Parsed(i) == parsed.parsed_lines[i]
ParsedIndices == 1..Len(parsed.parsed_lines)

\* The line creates a node, and the number n has a node created for it.
Assigns(i) == Parsed(i).backref = NoNumber
Registered(n) == \E i \in ParsedIndices : Assigns(i) /\ Parsed(i).number = n

ParentOf(i) == GetParentNumber(Parsed(i).number)
GrandparentOf(i) == GetParentNumber(ParentOf(i))
ContentLine(i) == Parsed(i).node_type # "Conclusion" /\ ~Parsed(i).is_warrant

\* The node the parser's table gives the line as its source.
SourceOf(i) ==
  parsed.number_to_node_id[IF Assigns(i) THEN Parsed(i).number ELSE Parsed(i).backref]

\* A content line directly under a registered number; a content line whose
\* parent number is not registered while its grandparent number is.
SingleLine(i) ==
  ContentLine(i) /\ ParentOf(i) # NoNumber /\ Registered(ParentOf(i))
CoPremiseLine(i) ==
  /\ ContentLine(i)
  /\ ParentOf(i) # NoNumber
  /\ ~Registered(ParentOf(i))
  /\ GrandparentOf(i) # NoNumber
  /\ Registered(GrandparentOf(i))
SingleLines == {i \in ParsedIndices : SingleLine(i)}
CoPremiseLines == {i \in ParsedIndices : CoPremiseLine(i)}

SameGroup(i, j) ==
  ParentOf(i) = ParentOf(j) /\ Parsed(i).polarity = Parsed(j).polarity
\* The first line of every group.
GroupLeaders ==
  {i \in CoPremiseLines : \A j \in CoPremiseLines : SameGroup(i, j) => i <= j}

RankIn(S, i) == Cardinality({j \in S : j <= i})
RECURSIVE Ascending(_)
Ascending(S) ==
  IF S = {} THEN << >>
  ELSE LET m == CHOOSE x \in S : \A y \in S : x <= y
       IN <<m>> \o Ascending(S \ {m})
GroupMembers(i) == Ascending({j \in CoPremiseLines : SameGroup(i, j)})

WithoutId(link) ==
  [source_ids |-> link.source_ids, target_id |-> link.target_id,
   polarity |-> link.polarity]
ExpectedSingleLink(i) ==
  [source_ids |-> <<SourceOf(i)>>,
   target_id |-> parsed.number_to_node_id[ParentOf(i)],
   polarity |-> Parsed(i).polarity]
ExpectedGroupLink(i) ==
  [source_ids |-> [k \in 1..Len(GroupMembers(i)) |-> SourceOf(GroupMembers(i)[k])],
   target_id |-> parsed.number_to_node_id[GrandparentOf(i)],
   polarity |-> Parsed(i).polarity]

\* The link the parse made for the k-th single line, and for the k-th group.
SingleLinkOf(i) == parsed.model.links[RankIn(SingleLines, i)]
GroupLinkOf(i) ==
  parsed.model.links[Cardinality(SingleLines) + RankIn(GroupLeaders, i)]

Resolves(i) == Assigns(i) \/ Registered(Parsed(i).backref)
CarriesSingle(n) == \E j \in SingleLines : Parsed(j).number = n
CarriesGroup(n) == \E j \in GroupLeaders : Parsed(j).number = n
AttachedWarrants ==
  {i \in ParsedIndices :
     /\ Parsed(i).is_warrant
     /\ Resolves(i)
     /\ CarriesSingle(ParentOf(i)) \/ CarriesGroup(ParentOf(i))}
WarrantLinkOf(i) ==
  parsed.model.links[Cardinality(SingleLines) + Cardinality(GroupLeaders)
                       + RankIn(AttachedWarrants, i)]

Assigners(n) == {i \in ParsedIndices : Assigns(i) /\ Parsed(i).number = n}
FirstAssigned(n) ==
  LET first == CHOOSE i \in Assigners(n) : \A j \in Assigners(n) : i <= j
  IN parsed.model.nodes[
       RankIn({i \in ParsedIndices : Assigns(i) /\ ~Parsed(i).is_warrant}, first)].id

\* C5: back-reference resolution.  Of a parse that returns, every content
\* line `(see N)` that makes a link of its own has as that link's source the
\* node first assigned to N, every co-premise `(see N)` contributes that node
\* to its group's link, and only the lines that are no back-references made
\* nodes.
C5_BackrefResolution ==
  (pc = "parsed" /\ ~parsed.raised) =>
    /\ \A i \in SingleLines :
         ~Assigns(i) => SingleLinkOf(i).source_ids = <<FirstAssigned(Parsed(i).backref)>>
    /\ \A i \in GroupLeaders : \A k \in 1..Len(GroupMembers(i)) :
         ~Assigns(GroupMembers(i)[k])
           => GroupLinkOf(i).source_ids[k]
                = FirstAssigned(Parsed(GroupMembers(i)[k]).backref)
    /\ Len(parsed.model.nodes) = Cardinality({i \in ParsedIndices : Assigns(i)})

\* The lines of the text as _parse_line reads them, and those whose
\* back-reference names a number no line of the text assigns.
Read(i) == ParseLine(text[i], i)
Readable == {i \in 1..Len(text) : ~text[i].blank /\ ~Read(i).raised}
Unresolved ==
  {i \in Readable :
     /\ Read(i).backref # NoNumber
     /\ \A j \in Readable :
          ~(Read(j).backref = NoNumber /\ Read(j).number = Read(i).backref)}

\* C6: an unresolved back-reference is always an error.  When every line of
\* the text is well-formed and some line, content line or warrant line, has
\* content `(see N)` with no line assigning N, parse raises, the error
\* carries the number of such a line and names its N, and no graph comes back.
C6_UnresolvedBackref ==
  (pc = "parsed" /\ Unresolved # {} /\ Readable = 1..Len(text)) =>
    /\ parsed.raised
    /\ ~parsed.model.ok
    /\ \E i \in Unresolved :
         parsed.line_number = i /\ parsed.missing = Read(i).backref

\* The physical lines _parse_line rejects.
Rejected ==
  {i \in 1..Len(text) :
     /\ ~text[i].blank
     /\ ~LineMatches(text[i]) \/ text[i].indent % IndentUnit # 0}

\* C10: malformed line reporting.  When some non-blank line does not match
\* the line grammar or is indented by no multiple of 3, parse raises
\* "Malformed line" or "Invalid indentation" for the first such line, with
\* its 1-based position among all physical lines, blank ones counted, and no
\* graph comes back, whatever the other lines are.
C10_MalformedLine ==
  (pc = "parsed" /\ Rejected # {}) =>
    /\ parsed.raised
    /\ ~parsed.model.ok
    /\ parsed.line_number \in Rejected
    /\ \A i \in Rejected : parsed.line_number <= i
    /\ parsed.message
         = (IF LineMatches(text[parsed.line_number])
              THEN "Invalid indentation" ELSE "Malformed line")

\* A line indented by 4 behind a blank line and a line with an unresolved
\* back-reference has been reported at its physical position.
C10_Witness ==
  /\ pc = "parsed"
  /\ parsed.raised
  /\ parsed.message = "Invalid indentation"
  /\ parsed.line_number = 3
  /\ \E i \in 1..2 : text[i].blank
  /\ \E i \in 1..2 : ~text[i].blank /\ Read(i).backref = Unassigned
\* C11: empty input.  Parsing a text none of whose lines has anything but
\* whitespace (the empty text is one such line) raises nothing and returns a
\* GraphModel with no node and no link.
C11_EmptyInput ==
  (pc = "parsed" /\ \A i \in 1..Len(text) : text[i].blank) =>
    /\ ~parsed.raised
    /\ parsed.model.ok
    /\ parsed.model.nodes = << >>
    /\ parsed.model.links = << >>

\* A text of two blank lines has been parsed.
C11_Witness ==
  /\ pc = "parsed"
  /\ Len(text) = 2
  /\ \A i \in 1..Len(text) : text[i].blank
  /\ parsed.model.ok
\* ------------------------------------------------- reading a subgraph call
Roots == {sub.root_ids[k] : k \in 1..Len(sub.root_ids)}
RootsExist == \A id \in Roots : ValidReference(model.nodes, model.links, id)
DepthsValid == sub.depth_up >= 0 /\ sub.depth_down >= 0

\* The identifiers within the given number of hops of some of ids, along the
\* edges of the union graph (forward) or against them.
RECURSIVE Within(_, _, _, _)
Within(edges, ids, hops, forward) ==
  IF hops = 0 THEN ids
  ELSE LET step == IF forward THEN {e[2] : e \in {f \in edges : f[1] \in ids}}
                   ELSE {e[1] : e \in {f \in edges : f[2] \in ids}}
       IN Within(edges, ids \cup step, hops - 1, forward)

\* C12: subgraph expansion.  For existing roots and depths >= 0, the node ids
\* of the graph get_subgraph returns are exactly the node ids of the original
\* within depth_up successor hops or within depth_down predecessor hops of
\* some root in the union graph.
C12_SubgraphExpansion ==
  (pc = "subgraph" /\ RootsExist /\ DepthsValid /\ sub.raised = "") =>
    NodeIdsOf(sub.model) =
      NodeIdsOf(model) \cap (Within(model.edges, Roots, sub.depth_up, TRUE)
                               \cup Within(model.edges, Roots, sub.depth_down, FALSE))
\* C13: roots always included.  For existing roots, node ids or link ids, and
\* depths >= 0, zero included, get_subgraph returns a graph that has every
\* root: among its nodes if it is a node, among its links if it is a link.
C13_RootsIncluded ==
  (pc = "subgraph" /\ RootsExist /\ DepthsValid) =>
    /\ sub.raised = ""
    /\ \A id \in Roots :
         /\ id \in NodeIdsOf(model) => id \in NodeIdsOf(sub.model)
         /\ id \in LinkIdsOf(model) => id \in LinkIdsOf(sub.model)
\* The graph the subgraph call was made on is the one constructed from the data.
Untouched == model = GraphModel(data_nodes, data_links)

\* C14 as stated: ValueError whenever a depth is negative and KeyError
\* whenever some root id is unknown; in both cases no graph is returned and
\* the original graph is unchanged.
C14_UsageErrorsAsStated ==
  pc = "subgraph" =>
    /\ ~DepthsValid => sub.raised = "ValueError" /\ sub.model = NoModel /\ Untouched
    /\ ~RootsExist => sub.raised = "KeyError" /\ sub.model = NoModel /\ Untouched

\* C14: subgraph usage errors.  get_subgraph raises ValueError whenever a
\* depth is negative, and KeyError whenever both depths are >= 0 and some root
\* id is neither a node id nor a link id; in both cases no graph is returned
\* and the original graph is unchanged.
C14_UsageErrors ==
  pc = "subgraph" =>
    /\ ~DepthsValid => sub.raised = "ValueError" /\ sub.model = NoModel /\ Untouched
    /\ (DepthsValid /\ ~RootsExist) =>
         sub.raised = "KeyError" /\ sub.model = NoModel /\ Untouched

C14_Witness ==
  /\ pc = "subgraph" /\ sub.raised = "ValueError"
  /\ ~RootsExist /\ sub.depth_up >= 0 /\ sub.depth_down < 0
  /\ Len(model.nodes) > 0
\* The links of g whose target is id.
LinksTargeting(g, id) == {g.links[i] : i \in {j \in 1..Len(g.links) : g.links[j].target_id = id}}

\* C15: incoming links.  For every identifier of a constructed graph, node or
\* link, get_incoming_links(id) is exactly the set of links whose target_id
\* is id.
C15_IncomingLinks ==
  pc = "model" =>
    \A id \in NodeIdsOf(model) \cup LinkIdsOf(model) :
      get_incoming_links(model, id) = LinksTargeting(model, id)
C17_DisjointIds ==
  pc = "model" => NodeIdsOf(model) \cap LinkIdsOf(model) = {}
\* C18: polarity of parsed graphs.  Every link of a graph that parse returns
\* has polarity supports or undermines, whatever text parse accepts.
C18_ParsedPolarity ==
  (pc = "parsed" /\ ~parsed.raised /\ parsed.model.ok) =>
    \A i \in 1..Len(parsed.model.links) : parsed.model.links[i].polarity \in Polarities
\* C19: cycle detection over the union graph.  check_acyclic returns True
\* exactly when the union graph, with an edge source -> link for every source
\* of every link and an edge link -> target for every link, has no directed
\* cycle.
C19_CheckAcyclic ==
  pc = "model" => (check_acyclic(model) <=> ~HasCycle(model))

\* C20: topological order or cycle error.  topological_sort raises ValueError
\* for every graph for which check_acyclic is False, and for every other
\* graph returns a list that has each node id exactly once.
C20_TopologicalSort ==
  pc = "model" =>
    LET sorted == topological_sort(model)
    IN IF ~check_acyclic(model) THEN sorted.raised = "ValueError"
       ELSE /\ sorted.raised = ""
            /\ Len(sorted.order) = Len(model.nodes)
            /\ {sorted.order[k] : k \in 1..Len(sorted.order)} = NodeIdsOf(model)
\* The elements of a sequence.
Range(seq) == {seq[k] : k \in 1..Len(seq)}

\* The nodes that are a source of some supports link of g.
SupportSources(g) ==
  UNION {Range(g.links[i].source_ids) :
           i \in {j \in 1..Len(g.links) : g.links[j].polarity = "supports"}}

\* C21: roots query.  get_roots returns exactly the node ids that are not a
\* source of any supports link; a node that is a source of undermines links
\* only is a root.
C21_Roots ==
  pc = "model" => Range(get_roots(model)) = NodeIdsOf(model) \ SupportSources(model)
\* The node made for a line of its own: nodes are made in line order for the
\* lines that are neither back-references nor warrants.
OwnNode(i) ==
  parsed.model.nodes[RankIn({j \in ParsedIndices : Assigns(j) /\ ~Parsed(j).is_warrant}, i)].id

\* The line has been put into some co-premise group.
Grouped(i) ==
  \E g \in 1..Len(parsed.copremise_groups) :
    \E k \in 1..Len(parsed.copremise_groups[g].siblings) :
      parsed.copremise_groups[g].siblings[k].line_number = Parsed(i).line_number

\* C22: single-source rule.  Of a parse that returns, every line that is no
\* conclusion and no warrant and whose parent number is the number of a line
\* that made a node has exactly one link made for it: its one source is the
\* line's own node, or the node its back-reference resolves to, its target
\* the node of the parent number, its polarity the line's; and the line is in
\* no co-premise group.
C22_SingleSourceRule ==
  (pc = "parsed" /\ ~parsed.raised) =>
    /\ Len(parsed.model.links) >= Cardinality(SingleLines)
    /\ \A i \in SingleLines :
         /\ SingleLinkOf(i).source_ids
              = <<IF Assigns(i) THEN OwnNode(i)
                  ELSE parsed.number_to_node_id[Parsed(i).backref]>>
         /\ SingleLinkOf(i).target_id = parsed.number_to_node_id[ParentOf(i)]
         /\ SingleLinkOf(i).polarity = Parsed(i).polarity
         /\ ~Grouped(i)
\* The warrant lines whose source resolves and whose parent number is the
\* parent number of the co-premise group led by line j.
WarrantsOfGroup(j) ==
  {i \in ParsedIndices :
     Parsed(i).is_warrant /\ Resolves(i) /\ ParentOf(i) = ParentOf(j)}

\* C23: warrant on a co-premise group.  Of a parse that returns, a warrant
\* line whose parent number is the parent number of a co-premise group (1.1w1
\* for the co-premises 1.1.1 and 1.1.2 of 1) yields a supports link from the
\* warrant's node to the link of the group.
C23_GroupWarrant ==
  (pc = "parsed" /\ ~parsed.raised) =>
    \A j \in GroupLeaders : \A i \in WarrantsOfGroup(j) :
      \E k \in 1..Len(parsed.model.links) :
        /\ parsed.model.links[k].source_ids = <<SourceOf(i)>>
        /\ parsed.model.links[k].polarity = "supports"
        /\ parsed.model.links[k].target_id = GroupLinkOf(j).id
\* ------------------------------------------------------- reading an export
\* The run of the export call that wrote the text.
Run == ExportRun(entry_registry, model)
Emitted == 1..Len(Run.lines)
LinesOf(id) == {k \in Emitted : Run.ids[k] = id}
FullLine(k) == Run.lines[k].body.see = NoNumber
FirstLineOf(id) == CHOOSE k \in LinesOf(id) : \A j \in LinesOf(id) : k <= j

\* The number m lies beneath the number n: n followed by dotted segments.
Beneath(n, m) ==
  Len(m) > Len(n) /\ SubSeq(m, 1, Len(n)) = n /\ m[Len(n) + 1] > 0

\* C24: first-occurrence registry.  Within one export the first number given
\* to a node id is never replaced; every node, Conclusions included, has its
\* full content on at most one line; every other line written for it is
\* `(see <first number>)`; and no line lies beneath a back-reference line.
C24_FirstOccurrence ==
  pc = "text" =>
    /\ \A id \in DOMAIN Run.reg : Run.reg[id] = Run.lines[FirstLineOf(id)].number
    /\ \A id \in NodeIdsOf(model) : Cardinality({k \in LinesOf(id) : FullLine(k)}) <= 1
    /\ \A id \in {i \in NodeIdsOf(model) : LinesOf(i) # {}} :
         \A k \in LinesOf(id) \ {FirstLineOf(id)} :
           Run.lines[k].body = SeeContent(Run.lines[FirstLineOf(id)].number)
    /\ \A k, j \in Emitted :
         ~FullLine(k) => ~Beneath(Run.lines[k].number, Run.lines[j].number)
\* The emitted lines numbered N w i, and the number N of the link they are
\* warrants of.
WarrantLineOfRun(k) ==
  LET n == Run.lines[k].number IN Len(n) >= 2 /\ n[Len(n)] < 0
LinkNumberOf(k) == SubSeq(Run.lines[k].number, 1, Len(Run.lines[k].number) - 1)

\* The lines that carry the sources of the link emitted at number n: the line
\* numbered n of a single-source link, the lines n.1, n.2, ... of a
\* multi-source link.
SourceLinesAt(n) ==
  IF \E j \in Emitted : Run.lines[j].number = n
    THEN {j \in Emitted : Run.lines[j].number = n}
  ELSE {j \in Emitted :
          LET m == Run.lines[j].number
          IN Len(m) = Len(n) + 1 /\ SubSeq(m, 1, Len(n)) = n /\ m[Len(m)] > 0}

\* C25: warrant placement.  In an export, the lines of the links that target
\* the link emitted at number N come after the lines of that link's sources,
\* are numbered Nw1, Nw2, ... in this order, and each is indented one level
\* deeper than the lines that carry the sources.
C25_WarrantPlacement ==
  pc = "text" =>
    \A k \in {j \in Emitted : WarrantLineOfRun(j)} :
      LET number == Run.lines[k].number
          index == 0 - number[Len(number)]
      IN /\ SourceLinesAt(LinkNumberOf(k)) # {}
         /\ \A j \in SourceLinesAt(LinkNumberOf(k)) :
              /\ j < k
              /\ Run.lines[k].indent = Run.lines[j].indent + IndentUnit
         /\ index > 1 =>
              \E j \in 1..(k - 1) :
                Run.lines[j].number = Append(LinkNumberOf(k), 0 - (index - 1))
\* The incoming links of a node and the place of one of them in ascending
\* (polarity, link id) order.
IncomingOf(id) == LinksTargeting(model, id)
PlaceOf(link, id) == 1 + Cardinality({other \in IncomingOf(id) : LinkKeyLess(other, link)})

\* The number the k-th source of the i-th incoming link of a node emitted at
\* number n is to get.
NumberedSource(n, i, link, k) ==
  IF Len(link.source_ids) = 1 THEN Append(n, i) ELSE Append(Append(n, i), k)

\* C26: export numbering of incoming links.  For a node emitted in full at
\* number N, the i-th of its incoming links in ascending (polarity, link id)
\* order gets N.i: the source of a single-source link is emitted at N.i, the
\* k-th source of a multi-source link at N.i.k; and no two lines of one
\* export have the same outline number.
C26_ExportNumbering ==
  pc = "text" =>
    /\ \A line \in {k \in Emitted : FullLine(k)} : \A link \in IncomingOf(Run.ids[line]) :
         \A k \in 1..Len(link.source_ids) :
           HasKey(model.nodes, link.source_ids[k]) =>
             \E j \in Emitted :
               /\ j > line
               /\ Run.ids[j] = link.source_ids[k]
               /\ Run.lines[j].number
                    = NumberedSource(Run.lines[line].number,
                                     PlaceOf(link, Run.ids[line]), link, k)
    /\ \A j, k \in Emitted : j # k => Run.lines[j].number # Run.lines[k].number

\* A conclusion with a two-source link: its sources are on the lines 1.1.1
\* and 1.1.2.
C26_Witness ==
  /\ pc = "text"
  /\ \E j, k \in Emitted :
       /\ Run.lines[j].number = <<1, 1, 1>>
       /\ Run.lines[k].number = <<1, 1, 2>>
       /\ Run.ids[j] # Run.ids[k]
       /\ FullLine(j) /\ FullLine(k)
\* The texts that have the lines of the text in the same order and differ
\* from it in the indentation of lines only, every indentation a multiple of 3.
IndentLevels == 0..2
Reindented(indents) ==
  [i \in 1..Len(text) |->
     IF text[i].blank THEN text[i] ELSE [text[i] EXCEPT !.indent = IndentUnit * indents[i]]]
Reindentations == {Reindented(indents) : indents \in [1..Len(text) -> IndentLevels]}

\* C27: structure comes from numbering alone.  A text and any text that
\* differs from it only in the indentation of its lines, every indentation a
\* multiple of 3, are both accepted or both rejected, and when accepted they
\* parse to graphs that are the same up to a renaming of ids, with the same
\* co-premise groups.
C27_NumberingAlone ==
  pc = "parsed" =>
    \A other \in Reindentations :
      LET reparsed == Parse(other)
      IN /\ reparsed.raised = parsed.raised
         /\ ~parsed.raised =>
              /\ Isomorphic(parsed.model, reparsed.model)
              /\ Len(reparsed.copremise_groups) = Len(parsed.copremise_groups)
              /\ \A g \in 1..Len(parsed.copremise_groups) :
                   /\ reparsed.copremise_groups[g].key = parsed.copremise_groups[g].key
                   /\ Len(reparsed.copremise_groups[g].siblings)
                        = Len(parsed.copremise_groups[g].siblings)

\* A text with a co-premise group and a line right under the conclusion has
\* been parsed, its lines indented by their depth.
C27_Witness ==
  /\ pc = "parsed" /\ ~parsed.raised
  /\ Len(text) = MaxLines
  /\ \E i \in 1..Len(text) : text[i].indent = 2 * IndentUnit
  /\ Cardinality(GroupLeaders) = 1
  /\ Len(parsed.model.links) = 1
  /\ Cardinality(Reindentations) > 1
\* C28: exporter output is always parseable.  For every constructed graph,
\* parse of the exported text does not raise, and every `(see N)` the
\* exporter wrote is read as a back-reference to N.
C28_OutputParseable ==
  pc = "parsed" =>
    /\ ~parsed.raised
    /\ Len(parsed.parsed_lines) = Len(Run.lines)
    /\ \A k \in Emitted :
         ~FullLine(k) => Parsed(k).backref = Run.lines[k].body.see
\* C29: subgraph extraction always yields a valid graph.  For existing roots
\* and depths >= 0, get_subgraph returns a graph and does not raise
\* InvalidReferenceError, and every link it keeps has all its sources and its
\* target among the nodes and links it keeps.
C29_SubgraphValid ==
  (pc = "subgraph" /\ RootsExist /\ DepthsValid) =>
    /\ sub.raised # "InvalidReferenceError"
    /\ sub.model.ok
    /\ \A i \in 1..Len(sub.model.links) :
         LET link == sub.model.links[i]
             kept == NodeIdsOf(sub.model) \cup LinkIdsOf(sub.model)
         IN /\ Range(link.source_ids) \subseteq kept
            /\ link.target_id # NoId => link.target_id \in kept
\* The sum of f over a finite set.
RECURSIVE SumOver(_, _)
SumOver(S, f) ==
  IF S = {} THEN 0
  ELSE LET x == CHOOSE y \in S : TRUE IN f[x] + SumOver(S \ {x}, f)

\* The lines one visit of a node writes beneath it: one for every source that
\* is a node, of every link that targets the node and of every link that
\* targets such a link.
NodeSources(link) ==
  Cardinality({k \in 1..Len(link.source_ids) : link.source_ids[k] \in NodeIdsOf(model)})
LinesOfLink(link) ==
  LET warrants == LinksTargeting(model, link.id)
  IN  NodeSources(link) + SumOver(warrants, [w \in warrants |-> NodeSources(w)])
LinesBeneath(id) ==
  LET incoming == LinksTargeting(model, id)
  IN  SumOver(incoming, [l \in incoming |-> LinesOfLink(l)])
LinesOfVisit(k) == LinesBeneath(Run.ids[k])

\* The visits of a node: the lines that carry it in full, its supporters
\* being visited after each; the header line of a conclusion's section.
Visits == {k \in Emitted : FullLine(k)}
Header(k) == Run.lines[k].b1 = "Conclusion" /\ Len(Run.lines[k].number) = 1

\* C30: export terminates.  On every constructed graph, with cycles among
\* nodes and links on links, export returns; a node is registered before its
\* supporters are visited, so it is visited at most once beneath a link (and
\* once more as the header of its section if it is a Conclusion), and the
\* text has exactly the lines of these visits.
C30_ExportTerminates ==
  pc = "text" =>
    /\ \A id \in NodeIdsOf(model) :
         Cardinality({k \in Visits : Run.ids[k] = id /\ ~Header(k)}) <= 1
    /\ \A id \in NodeIdsOf(model) :
         Cardinality({k \in Visits : Run.ids[k] = id /\ Header(k)}) <= 1
    /\ Len(Run.lines)
         = Cardinality({k \in Visits : Header(k)}) + SumOver(Visits, [k \in Visits |-> LinesOfVisit(k)])
    /\ text = ExportText(Run)

\* A graph with a cycle among its nodes and a link on a link has been
\* exported, the cycle closed by a back-reference.
C30_Witness ==
  /\ pc = "text"
  /\ HasCycle(model)
  /\ \E i \in 1..Len(model.links) : model.links[i].target_id \in LinkIdsOf(model)
  /\ \E k \in Emitted : ~FullLine(k) /\ Len(Run.lines[k].number) >= 3
  /\ \E k \in Emitted : Len(Run.lines[k].number) > 1 /\ Run.lines[k].number[Len(Run.lines[k].number)] < 0
====
